---- MODULE Spec2Model ----
(***************************************************************************)
(* Model of src/utils/detect-server.js: one call of serverSettings, which  *)
(* resolves the settings of the local development proxy from the [dev]     *)
(* block (devConfig), the CLI flags, the framework detector, the           *)
(* interactive picker, the port prober (get-port) and the file reader.     *)
(* Every await of the source is a step of the state machine; the answers   *)
(* of the collaborators are chosen nondeterministically.                   *)
(***************************************************************************)
EXTENDS Integers, Sequences, FiniteSets, TLC

VARIABLES
  devConfig,   \* first argument of serverSettings
  flags,       \* second argument of serverSettings
  settings,    \* the local `settings` of serverSettings (the draft)
  pc,          \* position of the call
  error,       \* the error thrown, NoError while none
  frameworks,  \* what listFrameworks answered
  options,     \* scriptInquirerOptions handed to the picker
  chosen,      \* <<chosenFramework>> once the picker answered, else <<>>
  calls,       \* how often each collaborator was invoked
  probes,      \* the getPort calls made so far, in order
  keyRead,     \* readFileAsyncCatchError(keyFile): idle, pending, ok, failed
  certRead     \* readFileAsyncCatchError(certFile): idle, pending, ok, failed

vars == <<devConfig, flags, settings, pc, error, frameworks, options, chosen,
          calls, probes, keyRead, certRead>>

(***************************************************************************)
(* JavaScript values.  A string-valued option is a TLA+ string, Undefined  *)
(* when absent; a port-valued option is a record carrying its typeof.      *)
(***************************************************************************)
Undefined == "<undefined>"
TruthyS(s) == s # Undefined /\ s # ""
OrS(a, b) == IF TruthyS(a) THEN a ELSE b

Num(n) == [t |-> "number", v |-> n]
Str(n) == [t |-> "string", v |-> n]
Undef == [t |-> "undefined", v |-> 0]
Truthy(x) == x.t # "undefined" /\ ~(x.t = "number" /\ x.v = 0)
Or(a, b) == IF Truthy(a) THEN a ELSE b

DEFAULT_PORT == 8888
DEFAULT_STATIC_PORT == 3999

\* Largest number of candidates listFrameworks answers with.
MaxFrameworks == 2

\* The ports the prober may answer with, whatever port was preferred.
Ports == {3000, DEFAULT_STATIC_PORT, DEFAULT_PORT}

Cwd == "<process.cwd()>"

(***************************************************************************)
(* Errors, named by the message thrown.                                    *)
(***************************************************************************)
NoError == "none"
ErrInvalidFramework == "Invalid \"framework\" option provided in config"
ErrCustomRequired == "\"command\" and \"targetPort\" properties are required when \"framework\" is set to \"#custom\""
ErrMustBeCustom == "\"framework\" option must be set to \"#custom\" when specifying both \"command\" and \"targetPort\" options"
ErrNotQualified == "Specified \"framework\" detector did not pass requirements for your project"
ErrInvalidTargetPort == "Invalid \"targetPort\" option specified"
ErrSameValues == "\"port\" and \"targetPort\" options cannot have same values"
ErrNoCommand == "No \"command\" specified or detected"
ErrTargetPortWithDir == "\"targetPort\" option cannot be used in conjunction with \"dir\" flag"
ErrPortConflict == "The \"port\" option you specified conflicts with the port of your application"
ErrNoTargetPort == "No \"targetPort\" option specified or detected."
ErrInvalidPort == "Invalid \"port\" option specified"
ErrCouldNotAcquire == "Could not acquire required \"port\""
ErrHttpsNotObject == "https options should be an object with 'keyFile' and 'certFile' string properties"
ErrKeyFileNotString == "Private key file configuration should be a string"
ErrCertFileNotString == "Certificate file configuration should be a string"
ErrReadingKey == "Error reading private key file"
ErrReadingCert == "Error reading certificate file"

(***************************************************************************)
(* Framework descriptors, as the detector answers them.                    *)
(***************************************************************************)
Gatsby ==
  [name |-> "gatsby", command |-> Undefined, commands |-> <<>>,
   build |-> [directory |-> "public"],
   dev |-> [commands |-> <<"gatsby develop", "npm run develop">>, port |-> Num(3000)],
   staticAssetsDirectory |-> Undefined, env |-> "GATSBY_ENV",
   watch |-> [commands |-> <<"develop">>]]

Hugo ==
  [name |-> "hugo", command |-> Undefined, commands |-> <<>>,
   build |-> [directory |-> "public"],
   dev |-> [commands |-> <<>>, port |-> Num(DEFAULT_PORT)],
   staticAssetsDirectory |-> "static", env |-> Undefined,
   watch |-> [commands |-> <<"server -w", "server -D">>]]

Jekyll ==
  [name |-> "jekyll", command |-> Undefined, commands |-> <<>>,
   build |-> [directory |-> "_site"],
   dev |-> [commands |-> <<>>, port |-> Undef],
   staticAssetsDirectory |-> Undefined, env |-> Undefined,
   watch |-> [commands |-> <<>>]]

Catalog == {Gatsby, Hugo, Jekyll}

\* The answers of listFrameworks: no framework is listed twice.
FrameworkLists ==
  {fs \in UNION {[1..n -> Catalog] : n \in 0..MaxFrameworks} :
     \A i, j \in DOMAIN fs : i # j => fs[i] # fs[j]}

\* The descriptor getFramework answers for a framework id.
getFramework(id) == CHOOSE d \in Catalog : d.name = id

(***************************************************************************)
(* The arguments of serverSettings.                                        *)
(***************************************************************************)
FrameworkValues == {"#auto", "#custom", "#static", "gatsby", "hugo", Undefined}
PortValues == {Undef, Num(3000), Num(DEFAULT_PORT), Str(3000)}

NoHttps == [given |-> FALSE, plain |-> FALSE, keyFile |-> Undefined, certFile |-> Undefined]
HttpsValues ==
  {NoHttps,
   [given |-> TRUE, plain |-> FALSE, keyFile |-> Undefined, certFile |-> Undefined],
   [given |-> TRUE, plain |-> TRUE, keyFile |-> "k.pem", certFile |-> "c.pem"],
   [given |-> TRUE, plain |-> TRUE, keyFile |-> Undefined, certFile |-> "c.pem"],
   [given |-> TRUE, plain |-> TRUE, keyFile |-> "k.pem", certFile |-> Undefined]}

DevConfigs ==
  [framework : FrameworkValues,
   command : {Undefined, "npm run x"},
   targetPort : PortValues,
   port : PortValues,
   publish : {Undefined, "dist"},
   functions : {Undefined, "functions"},
   functionsPort : {Undef},
   jwtSecret : {Undefined},
   jwtRolePath : {Undefined},
   https : HttpsValues]

Flags ==
  [dir : {Undefined, "./public"},
   staticServerPort : {Undef, Num(3000)}]

(***************************************************************************)
(* The settings record.  `let settings = {}` is EmptySettings.              *)
(***************************************************************************)
NoHttpsSettings == [key |-> Undefined, cert |-> Undefined]

EmptySettings ==
  [command |-> Undefined, frameworkPort |-> Undef, dist |-> Undefined,
   framework |-> Undefined, env |-> Undefined, noCmd |-> FALSE,
   port |-> Undef, jwtSecret |-> Undefined, jwtRolePath |-> Undefined,
   functions |-> Undefined, functionsPort |-> Undef, https |-> NoHttpsSettings]

getSettingsFromFramework(framework) ==
  [EmptySettings EXCEPT
     !.command = IF Len(framework.dev.commands) > 0
                 THEN framework.dev.commands[1] ELSE Undefined,
     !.frameworkPort = framework.dev.port,
     !.dist = OrS(framework.staticAssetsDirectory, framework.build.directory),
     !.framework = framework.name,
     !.env = framework.env]

\* Variant of formatSettingsArrForInquirer: one option per framework.
formatOnePerFramework(fs) ==
  [i \in 1..Len(fs) |->
     [name |-> <<fs[i].name, fs[i].command, Undefined>>,
      value |-> fs[i],
      short |-> <<fs[i].name, Undefined>>]]

\* The options one framework contributes: one per watch command.
OptionsOf(framework) ==
  [i \in 1..Len(framework.watch.commands) |->
     [name |-> <<framework.name, framework.command, framework.watch.commands[i]>>,
      value |-> [framework EXCEPT !.commands = <<framework.watch.commands[i]>>],
      short |-> <<framework.name, framework.watch.commands[i]>>]]

RECURSIVE formatSettingsArrForInquirer(_)
formatSettingsArrForInquirer(fs) ==
  IF fs = <<>> THEN <<>>
  ELSE OptionsOf(Head(fs)) \o formatSettingsArrForInquirer(Tail(fs))

hasCommandAndTargetPort(dc) == TruthyS(dc.command) /\ Truthy(dc.targetPort)

\* Variant of validateCustomSettings: "#custom" is checked for its command only.
validateCustomCommandOnly(dc) ==
  IF dc.framework = "#custom" /\ ~TruthyS(dc.command) THEN ErrCustomRequired
  ELSE IF dc.framework # "#custom" /\ TruthyS(dc.command) /\ Truthy(dc.targetPort)
       THEN ErrMustBeCustom
  ELSE NoError

\* Variant of validateCustomSettings: only a named framework is rejected.
validateCustomNamedOnly(dc) ==
  IF dc.framework = "#custom" /\ ~hasCommandAndTargetPort(dc) THEN ErrCustomRequired
  ELSE IF dc.framework \notin {"#custom", "#auto", "#static"}
          /\ TruthyS(dc.command) /\ Truthy(dc.targetPort)
       THEN ErrMustBeCustom
  ELSE NoError

validateCustomSettings(dc) ==
  IF dc.framework = "#custom" /\ ~hasCommandAndTargetPort(dc) THEN ErrCustomRequired
  ELSE IF dc.framework # "#custom" /\ TruthyS(dc.command) /\ Truthy(dc.targetPort)
       THEN ErrMustBeCustom
  ELSE NoError

\* Variant of OriginBranch: the dir flag is tested after "#auto".
OriginBranchAutoFirst(dc, fl) ==
  IF dc.framework = "#auto" /\ ~hasCommandAndTargetPort(dc) THEN "auto"
  ELSE IF TruthyS(fl.dir) THEN "dir"
  ELSE IF dc.framework = "#custom" \/ hasCommandAndTargetPort(dc) THEN "custom"
  ELSE IF dc.framework # "#static" THEN "named"
  ELSE "none"

\* The branch the if/else-if chain of serverSettings takes.
OriginBranch(dc, fl) ==
  IF TruthyS(fl.dir) THEN "dir"
  ELSE IF dc.framework = "#auto" /\ ~hasCommandAndTargetPort(dc) THEN "auto"
  ELSE IF dc.framework = "#custom" \/ hasCommandAndTargetPort(dc) THEN "custom"
  ELSE IF dc.framework # "#static" THEN "named"
  ELSE "none"

\* getStaticServerSettings, `answer` being what getPort resolved to.
getStaticServerSettings(dist, answer) ==
  [EmptySettings EXCEPT
     !.noCmd = TRUE,
     !.frameworkPort = Num(answer),
     !.dist = IF TruthyS(dist) THEN dist ELSE Cwd]

Probe(for, preferred, answer) == [for |-> for, preferred |-> preferred, answer |-> answer]

NoCalls == [listFrameworks |-> 0, hasFramework |-> 0, getFramework |-> 0, prompt |-> 0]

Init ==
  /\ devConfig \in DevConfigs
  /\ flags \in Flags
  /\ settings = EmptySettings
  /\ pc = "start"
  /\ error = NoError
  /\ frameworks = <<>>
  /\ options = <<>>
  /\ chosen = <<>>
  /\ calls = NoCalls
  /\ probes = <<>>
  /\ keyRead = "idle"
  /\ certRead = "idle"

Throw(e) == pc' = "failed" /\ error' = e

(***************************************************************************)
(* The synchronous rules of serverSettings, as operators.                  *)
(***************************************************************************)
\* `settings.command = devConfig.command` unless the draft is a static server.
OverrideCommand(s, dc) ==
  IF ~s.noCmd /\ TruthyS(dc.command) THEN [s EXCEPT !.command = dc.command] ELSE s

\* settings.dist = flags.dir || devConfig.publish || settings.dist
OverrideDist(s, dc, fl) ==
  [s EXCEPT !.dist = OrS(fl.dir, OrS(dc.publish, s.dist))]

\* Variant of TargetPortError: the command is required before the values
\* are compared.
TargetPortErrorCommandFirst(dc, fl, s) ==
  IF ~Truthy(dc.targetPort) THEN NoError
  ELSE IF dc.targetPort.t # "number" THEN ErrInvalidTargetPort
  ELSE IF ~TruthyS(s.command) THEN ErrNoCommand
  ELSE IF dc.targetPort = dc.port THEN ErrSameValues
  ELSE IF TruthyS(fl.dir) THEN ErrTargetPortWithDir
  ELSE NoError

\* The throws of the `if (devConfig.targetPort)` block, in the order written.
TargetPortError(dc, fl, s) ==
  IF ~Truthy(dc.targetPort) THEN NoError
  ELSE IF dc.targetPort.t # "number" THEN ErrInvalidTargetPort
  ELSE IF dc.targetPort = dc.port THEN ErrSameValues
  ELSE IF ~TruthyS(s.command) THEN ErrNoCommand
  ELSE IF TruthyS(fl.dir) THEN ErrTargetPortWithDir
  ELSE NoError

OverrideFrameworkPort(s, dc) ==
  IF Truthy(dc.targetPort) THEN [s EXCEPT !.frameworkPort = dc.targetPort] ELSE s

\* devConfig.port && devConfig.port === settings.frameworkPort
PortConflict(dc, s) == Truthy(dc.port) /\ dc.port = s.frameworkPort

\* !settings.command && !settings.framework && !settings.noCmd
NeedsStaticFallback(s) == ~TruthyS(s.command) /\ ~TruthyS(s.framework) /\ ~s.noCmd

\* The three throws between the fallback and the request of the proxy port.
FrameworkPortError(dc, s) ==
  IF ~Truthy(s.frameworkPort) THEN ErrNoTargetPort
  ELSE IF Truthy(dc.port) /\ dc.port.t # "number" THEN ErrInvalidPort
  ELSE IF PortConflict(dc, s) THEN ErrPortConflict
  ELSE NoError

\* Variant of AcquireFails: the default port is required exactly, too.
AcquireFailsUnpinned(dc, triedPort, port) == triedPort # port

\* triedPort !== settings.port && devConfig.port
AcquireFails(dc, triedPort, port) == triedPort # port /\ Truthy(dc.port)

\* The throws of readHttpsSettings before the files are read.
HttpsOptionsError(https) ==
  IF ~https.plain THEN ErrHttpsNotObject
  ELSE IF https.keyFile = Undefined THEN ErrKeyFileNotString
  ELSE IF https.certFile = Undefined THEN ErrCertFileNotString
  ELSE NoError

\* Variant of ReadError: the certificate's error is not looked at.
ReadErrorKeyOnly(key, cert) ==
  IF key = "failed" THEN ErrReadingKey ELSE NoError

\* The throws of readHttpsSettings once both reads have completed.
ReadError(key, cert) ==
  IF key = "failed" THEN ErrReadingKey
  ELSE IF cert = "failed" THEN ErrReadingCert
  ELSE NoError

StaticPreferred(fl) == Or(fl.staticServerPort, Num(DEFAULT_STATIC_PORT))

(***************************************************************************)
(* The steps of one call of serverSettings.                                *)
(***************************************************************************)
Start ==
  /\ pc = "start"
  /\ IF devConfig.framework = Undefined
     THEN Throw(ErrInvalidFramework)
     ELSE pc' = "origin" /\ UNCHANGED error
  /\ UNCHANGED <<devConfig, flags, settings, frameworks, options, chosen,
                 calls, probes, keyRead, certRead>>

StaticDir ==
  /\ pc = "origin"
  /\ OriginBranch(devConfig, flags) = "dir"
  /\ \E p \in Ports :
       /\ settings' = getStaticServerSettings(flags.dir, p)
       /\ probes' = Append(probes, Probe("static", StaticPreferred(flags), Num(p)))
  /\ pc' = "override"
  /\ UNCHANGED <<devConfig, flags, error, frameworks, options, chosen,
                 calls, keyRead, certRead>>

ListFrameworks ==
  /\ pc = "origin"
  /\ OriginBranch(devConfig, flags) = "auto"
  /\ \E fs \in FrameworkLists :
       /\ frameworks' = fs
       /\ IF Len(fs) = 1
          THEN /\ settings' = getSettingsFromFramework(fs[1])
               /\ calls' = [calls EXCEPT !.listFrameworks = @ + 1]
               /\ pc' = "override"
               /\ UNCHANGED options
          ELSE IF Len(fs) > 1
          THEN /\ options' = formatSettingsArrForInquirer(fs)
               /\ calls' = [calls EXCEPT !.listFrameworks = @ + 1, !.prompt = @ + 1]
               /\ pc' = "prompt"
               /\ UNCHANGED settings
          ELSE /\ settings' = EmptySettings
               /\ calls' = [calls EXCEPT !.listFrameworks = @ + 1]
               /\ pc' = "override"
               /\ UNCHANGED options
  /\ UNCHANGED <<devConfig, flags, error, chosen, probes, keyRead, certRead>>

Prompt ==
  /\ pc = "prompt"
  /\ \E i \in DOMAIN options :
       /\ chosen' = <<options[i].value>>
       /\ settings' = getSettingsFromFramework(options[i].value)
  /\ pc' = "override"
  /\ UNCHANGED <<devConfig, flags, error, frameworks, options, calls, probes,
                 keyRead, certRead>>

Custom ==
  /\ pc = "origin"
  /\ OriginBranch(devConfig, flags) = "custom"
  /\ IF validateCustomSettings(devConfig) # NoError
     THEN Throw(validateCustomSettings(devConfig)) /\ UNCHANGED settings
     ELSE /\ settings' = [EmptySettings EXCEPT !.framework = "#custom"]
          /\ pc' = "override"
          /\ UNCHANGED error
  /\ UNCHANGED <<devConfig, flags, frameworks, options, chosen, calls, probes,
                 keyRead, certRead>>

HasFramework ==
  /\ pc = "origin"
  /\ OriginBranch(devConfig, flags) = "named"
  /\ calls' = [calls EXCEPT !.hasFramework = @ + 1]
  /\ \E hasConfigFramework \in BOOLEAN :
       IF ~hasConfigFramework
       THEN Throw(ErrNotQualified)
       ELSE pc' = "getFramework" /\ UNCHANGED error
  /\ UNCHANGED <<devConfig, flags, settings, frameworks, options, chosen,
                 probes, keyRead, certRead>>

GetFramework ==
  /\ pc = "getFramework"
  /\ calls' = [calls EXCEPT !.getFramework = @ + 1]
  /\ settings' = getSettingsFromFramework(getFramework(devConfig.framework))
  /\ pc' = "override"
  /\ UNCHANGED <<devConfig, flags, error, frameworks, options, chosen, probes,
                 keyRead, certRead>>

NoOrigin ==
  /\ pc = "origin"
  /\ OriginBranch(devConfig, flags) = "none"
  /\ pc' = "override"
  /\ UNCHANGED <<devConfig, flags, settings, error, frameworks, options, chosen,
                 calls, probes, keyRead, certRead>>

Override ==
  /\ pc = "override"
  /\ LET s2 == OverrideDist(OverrideCommand(settings, devConfig), devConfig, flags)
         s3 == OverrideFrameworkPort(s2, devConfig)
     IN IF TargetPortError(devConfig, flags, s2) # NoError
        THEN Throw(TargetPortError(devConfig, flags, s2)) /\ settings' = s2
        ELSE IF PortConflict(devConfig, s3)
        THEN Throw(ErrPortConflict) /\ settings' = s3
        ELSE settings' = s3 /\ pc' = "fallback" /\ UNCHANGED error
  /\ UNCHANGED <<devConfig, flags, frameworks, options, chosen, calls, probes,
                 keyRead, certRead>>

Fallback ==
  /\ pc = "fallback"
  /\ \E p \in Ports :
       LET s == IF NeedsStaticFallback(settings)
                THEN getStaticServerSettings(settings.dist, p)
                ELSE settings
       IN /\ settings' = s
          /\ probes' = IF NeedsStaticFallback(settings)
                       THEN Append(probes, Probe("static", StaticPreferred(flags), Num(p)))
                       ELSE probes
          /\ IF FrameworkPortError(devConfig, s) # NoError
             THEN Throw(FrameworkPortError(devConfig, s))
             ELSE pc' = "acquire" /\ UNCHANGED error
  /\ UNCHANGED <<devConfig, flags, frameworks, options, chosen, calls,
                 keyRead, certRead>>

AcquirePort ==
  /\ pc = "acquire"
  /\ \E p \in Ports :
       LET triedPort == Or(devConfig.port, Num(DEFAULT_PORT))
           s == [settings EXCEPT !.port = Num(p)]
       IN /\ probes' = Append(probes, Probe("proxy", triedPort, Num(p)))
          /\ IF AcquireFails(devConfig, triedPort, s.port)
             THEN Throw(ErrCouldNotAcquire) /\ settings' = s
             ELSE /\ settings' =
                       [s EXCEPT
                          !.jwtSecret = OrS(devConfig.jwtSecret, "secret"),
                          !.jwtRolePath = OrS(devConfig.jwtRolePath,
                                              "app_metadata.authorization.roles"),
                          !.functions = OrS(devConfig.functions, s.functions)]
                  /\ pc' = IF TruthyS(OrS(devConfig.functions, s.functions))
                           THEN "functionsPort" ELSE "https"
                  /\ UNCHANGED error
  /\ UNCHANGED <<devConfig, flags, frameworks, options, chosen, calls,
                 keyRead, certRead>>

FunctionsPort ==
  /\ pc = "functionsPort"
  /\ \E p \in Ports :
       /\ settings' = [settings EXCEPT !.functionsPort = Num(p)]
       /\ probes' = Append(probes, Probe("functions", Or(devConfig.functionsPort, Num(0)), Num(p)))
  /\ pc' = "https"
  /\ UNCHANGED <<devConfig, flags, error, frameworks, options, chosen, calls,
                 keyRead, certRead>>

\* `if (devConfig.https)` and readHttpsSettings up to the two reads it issues.
Https ==
  /\ pc = "https"
  /\ IF ~devConfig.https.given
     THEN pc' = "returned" /\ UNCHANGED <<error, keyRead, certRead>>
     ELSE IF HttpsOptionsError(devConfig.https) # NoError
     THEN Throw(HttpsOptionsError(devConfig.https)) /\ UNCHANGED <<keyRead, certRead>>
     ELSE /\ keyRead' = "pending"
          /\ certRead' = "pending"
          /\ pc' = "reading"
          /\ UNCHANGED error
  /\ UNCHANGED <<devConfig, flags, settings, frameworks, options, chosen, calls, probes>>

KeyReadDone ==
  /\ pc = "reading"
  /\ keyRead = "pending"
  /\ \E r \in {"ok", "failed"} : keyRead' = r
  /\ UNCHANGED <<devConfig, flags, settings, pc, error, frameworks, options, chosen,
                 calls, probes, certRead>>

CertReadDone ==
  /\ pc = "reading"
  /\ certRead = "pending"
  /\ \E r \in {"ok", "failed"} : certRead' = r
  /\ UNCHANGED <<devConfig, flags, settings, pc, error, frameworks, options, chosen,
                 calls, probes, keyRead>>

\* Promise.all resolved: both results are inspected, the key's first.
HttpsJoin ==
  /\ pc = "reading"
  /\ keyRead \in {"ok", "failed"}
  /\ certRead \in {"ok", "failed"}
  /\ IF ReadError(keyRead, certRead) # NoError
     THEN Throw(ReadError(keyRead, certRead)) /\ UNCHANGED settings
     ELSE /\ settings' = [settings EXCEPT !.https = [key |-> "key", cert |-> "cert"]]
          /\ pc' = "returned"
          /\ UNCHANGED error
  /\ UNCHANGED <<devConfig, flags, frameworks, options, chosen, calls, probes,
                 keyRead, certRead>>

Next ==
  \/ Start
  \/ StaticDir
  \/ ListFrameworks
  \/ Prompt
  \/ Custom
  \/ HasFramework
  \/ GetFramework
  \/ NoOrigin
  \/ Override
  \/ Fallback
  \/ AcquirePort
  \/ FunctionsPort
  \/ Https
  \/ KeyReadDone
  \/ CertReadDone
  \/ HttpsJoin

Spec == Init /\ [][Next]_vars

(***************************************************************************)
(* Properties.                                                             *)
(***************************************************************************)
Returned == pc = "returned"
Failed == pc = "failed"
BeforeOverride == {"start", "origin", "prompt", "getFramework"}
ProxyProbes == {i \in DOMAIN probes : probes[i].for = "proxy"}
EqualPorts ==
  Truthy(devConfig.port) /\ Truthy(devConfig.targetPort)
  /\ devConfig.port = devConfig.targetPort

\* C1: every returned record has port different from frameworkPort.
C1_PortDiffersFromFrameworkPort ==
  Returned => settings.port # settings.frameworkPort

\* C2: every returned record that does not have noCmd = true carries a
\* command that is a non-empty string.
C2_CommandUnlessNoCmd ==
  (Returned /\ ~settings.noCmd) => TruthyS(settings.command)

\* C3: a supplied devConfig.port is returned exactly, or the call fails with
\* 'Could not acquire required "port"' when the prober answers another port;
\* without devConfig.port the prober is asked for 8888 and whatever it answers
\* is accepted as port.
C3_PinnedPortExactOrRejected ==
  /\ (Returned /\ Truthy(devConfig.port)) => settings.port = devConfig.port
  /\ error = ErrCouldNotAcquire => Failed /\ ProxyProbes # {}
  /\ \A i \in ProxyProbes :
       IF Truthy(devConfig.port)
       THEN /\ probes[i].preferred = devConfig.port
            /\ (probes[i].answer # devConfig.port) = (error = ErrCouldNotAcquire)
       ELSE /\ probes[i].preferred = Num(DEFAULT_PORT)
            /\ settings.port = probes[i].answer
            /\ error # ErrCouldNotAcquire

C3_Witness ==
  /\ Failed
  /\ error = ErrCouldNotAcquire
  /\ Truthy(devConfig.port)
  /\ \E i \in ProxyProbes : probes[i].answer # devConfig.port

\* C4 as stated: with devConfig.port and devConfig.targetPort supplied and
\* equal, the call fails with the same-values error and with no other.
C4_SameValuesErrorRegardless ==
  EqualPorts => ~Returned /\ (Failed => error = ErrSameValues)

\* C4 amended: with devConfig.port and devConfig.targetPort supplied and
\* equal, no record is returned and the call never gets past the targetPort
\* block; it fails with the same-values error unless a check that precedes
\* it threw: framework not a string, validateCustomSettings, a named
\* framework that does not qualify, or targetPort not a number.
C4_SameValuesUnlessEarlierError ==
  EqualPorts =>
    /\ pc \in BeforeOverride \cup {"override", "failed"}
    /\ Failed => error \in {ErrSameValues, ErrInvalidFramework, ErrCustomRequired,
                            ErrMustBeCustom, ErrNotQualified, ErrInvalidTargetPort}
    /\ Failed /\ devConfig.targetPort.t = "number" => error # ErrInvalidTargetPort
    /\ Failed /\ devConfig.framework # Undefined => error # ErrInvalidFramework
    /\ Failed /\ OriginBranch(devConfig, flags) # "custom" =>
         error \notin {ErrCustomRequired, ErrMustBeCustom}
    /\ Failed /\ OriginBranch(devConfig, flags) # "named" => error # ErrNotQualified

C4_Witness ==
  /\ Failed
  /\ error = ErrSameValues
  /\ EqualPorts
  /\ TruthyS(flags.dir)

CustomWithoutTargetPort ==
  /\ devConfig.framework = "#custom"
  /\ TruthyS(devConfig.command)
  /\ ~Truthy(devConfig.targetPort)

\* C5 as stated: framework "#custom" with a command and no targetPort fails
\* with the '"command" and "targetPort" properties are required' error, for
\* every value of the flags.
C5_CustomRequiredWhateverFlags ==
  CustomWithoutTargetPort => ~Returned /\ (Failed => error = ErrCustomRequired)

\* C5 amended: the same, provided the dir flag is not supplied; the call
\* then goes no further than validateCustomSettings.  With the dir flag
\* that error is never raised.
C5_CustomRequiredWithoutDir ==
  CustomWithoutTargetPort =>
    IF TruthyS(flags.dir)
    THEN error # ErrCustomRequired
    ELSE /\ pc \in {"start", "origin", "failed"}
         /\ Failed => error = ErrCustomRequired

C5_Witness ==
  /\ CustomWithoutTargetPort
  /\ ~TruthyS(flags.dir)
  /\ Failed
  /\ error = ErrCustomRequired

\* C6: with the dir flag and a numeric devConfig.targetPort different from
\* devConfig.port, the call fails with the '"targetPort" option cannot be
\* used in conjunction with "dir" flag' error.
C6_DirWithTargetPortError ==
  (/\ TruthyS(flags.dir)
   /\ devConfig.framework # Undefined
   /\ Truthy(devConfig.targetPort)
   /\ devConfig.targetPort.t = "number"
   /\ devConfig.targetPort # devConfig.port)
  => ~Returned /\ (Failed => error = ErrTargetPortWithDir)

\* C7: with the dir flag supplied the detector and the picker are never
\* invoked, and a returned record has noCmd = true, dist = flags.dir, no
\* command, and as frameworkPort the prober's answer for
\* flags.staticServerPort, else 3999.
C7_StaticDirPrecedence ==
  TruthyS(flags.dir) =>
    /\ calls = NoCalls
    /\ frameworks = <<>> /\ options = <<>> /\ chosen = <<>>
    /\ Returned =>
         /\ settings.noCmd
         /\ settings.dist = flags.dir
         /\ settings.command = Undefined
         /\ probes[1].for = "static"
         /\ probes[1].preferred =
              (IF flags.staticServerPort = Undef
               THEN Num(DEFAULT_STATIC_PORT) ELSE flags.staticServerPort)
         /\ settings.frameworkPort = probes[1].answer
         /\ \A i \in DOMAIN probes : i > 1 => probes[i].for # "static"

C7_Witness ==
  /\ Returned
  /\ TruthyS(flags.dir)
  /\ devConfig.framework = "gatsby"
  /\ TruthyS(devConfig.command)
  /\ TruthyS(devConfig.publish)
  /\ settings.frameworkPort # StaticPreferred(flags)

RECURSIVE WatchCommandCount(_)
WatchCommandCount(fs) ==
  IF fs = <<>> THEN 0
  ELSE Len(Head(fs).watch.commands) + WatchCommandCount(Tail(fs))

\* The picker's answer populated the draft: the state right after Prompt.
PickerAnswered == chosen # <<>> /\ pc = "override"

ChosenPopulatesDraft ==
  PickerAnswered =>
    /\ \E i \in DOMAIN frameworks :
         /\ chosen[1].name = frameworks[i].name
         /\ chosen[1].dev = frameworks[i].dev
         /\ chosen[1].build = frameworks[i].build
         /\ chosen[1].staticAssetsDirectory = frameworks[i].staticAssetsDirectory
    /\ settings.command = (IF chosen[1].dev.commands = <<>>
                           THEN Undefined ELSE Head(chosen[1].dev.commands))
    /\ settings.frameworkPort = chosen[1].dev.port
    /\ settings.dist = (IF chosen[1].staticAssetsDirectory # Undefined
                        THEN chosen[1].staticAssetsDirectory
                        ELSE chosen[1].build.directory)
    /\ settings.framework = chosen[1].name

PickerOnlyForSeveral ==
  /\ calls.prompt = (IF Len(frameworks) >= 2 THEN 1 ELSE 0)
  /\ Len(frameworks) < 2 => options = <<>> /\ chosen = <<>>

\* C8 as stated: with two or more candidates the picker is invoked exactly
\* once with exactly one option per candidate and its answer populates the
\* draft; with fewer candidates it is never invoked.
C8_OneOptionPerCandidate ==
  /\ PickerOnlyForSeveral
  /\ Len(frameworks) >= 2 => Len(options) = Len(frameworks)
  /\ ChosenPopulatesDraft

\* C8 amended: with two or more candidates the picker is invoked exactly
\* once with one option per (candidate, watch command) pair, in the order
\* of the candidates, and its answer populates the draft; with fewer
\* candidates it is never invoked.
C8_OneOptionPerWatchCommand ==
  /\ PickerOnlyForSeveral
  /\ Len(frameworks) >= 2 =>
       /\ Len(options) = WatchCommandCount(frameworks)
       /\ \A i \in DOMAIN frameworks :
            \A k \in DOMAIN frameworks[i].watch.commands :
              LET n == WatchCommandCount(SubSeq(frameworks, 1, i - 1)) + k
              IN /\ options[n].value.name = frameworks[i].name
                 /\ options[n].value.commands = <<frameworks[i].watch.commands[k]>>
                 /\ options[n].name[1] = frameworks[i].name
                 /\ options[n].name[3] = frameworks[i].watch.commands[k]
  /\ ChosenPopulatesDraft

C8_Witness ==
  /\ PickerAnswered
  /\ Len(frameworks) = 2
  /\ Len(options) = 3
  /\ chosen[1].name = "gatsby"
  /\ settings.command = "gatsby develop"

\* C9: the key and certificate reads are issued together and inspected only
\* once both have completed; the call fails exactly when a read failed,
\* naming the certificate file when only that read failed and the private
\* key file when only that read failed, and https is set only when both
\* reads succeeded.
C9_HttpsReadsJoined ==
  /\ (keyRead = "idle") = (certRead = "idle")
  /\ keyRead # "idle" => devConfig.https.keyFile # Undefined
                         /\ devConfig.https.certFile # Undefined
  /\ (keyRead = "pending" \/ certRead = "pending") =>
       pc = "reading" /\ error = NoError
  /\ (keyRead # "idle" /\ pc # "reading") =>
       /\ Failed = (keyRead = "failed" \/ certRead = "failed")
       /\ Returned = (keyRead = "ok" /\ certRead = "ok")
       /\ (keyRead = "ok" /\ certRead = "failed") => error = ErrReadingCert
       /\ (keyRead = "failed" /\ certRead = "ok") => error = ErrReadingKey
  /\ settings.https # NoHttpsSettings =>
       Returned /\ keyRead = "ok" /\ certRead = "ok"
  /\ (Returned /\ devConfig.https.given) => settings.https = [key |-> "key", cert |-> "cert"]

C9_Witness ==
  /\ Failed
  /\ error = ErrReadingCert
  /\ keyRead = "ok"
  /\ certRead = "failed"

CommandAndTargetPortNoDir ==
  /\ ~TruthyS(flags.dir)
  /\ devConfig.framework # Undefined
  /\ TruthyS(devConfig.command)
  /\ Truthy(devConfig.targetPort)

CustomRecord ==
  /\ pc \notin {"start", "origin"} => settings.framework = "#custom"
  /\ Returned => /\ settings.command = devConfig.command
                 /\ settings.frameworkPort = devConfig.targetPort

\* C10 as stated: with no dir flag and command and targetPort supplied, the
\* '"framework" option must be set to "#custom"' error is raised only for a
\* named framework; with "#auto" or "#custom" it is not, the detector is not
\* invoked and the record carries framework "#custom", the command and the
\* targetPort.
C10_MustBeCustomOnlyForNamed ==
  CommandAndTargetPortNoDir =>
    /\ calls = NoCalls
    /\ devConfig.framework \in {"#auto", "#custom"} =>
         error # ErrMustBeCustom /\ CustomRecord

\* C10 amended: the error is raised for every framework value other than
\* "#custom" ("#auto" and "#static" as well as a named framework), and
\* nothing else happens in that call; only with "#custom" is it not raised,
\* and then the record carries framework "#custom", the command and the
\* targetPort.  The detector is invoked in neither case.
C10_MustBeCustomUnlessCustom ==
  CommandAndTargetPortNoDir =>
    /\ calls = NoCalls
    /\ devConfig.framework # "#custom" =>
         /\ pc \in {"start", "origin", "failed"}
         /\ Failed => error = ErrMustBeCustom
    /\ devConfig.framework = "#custom" =>
         error # ErrMustBeCustom /\ CustomRecord

C10_Witness ==
  /\ CommandAndTargetPortNoDir
  /\ devConfig.framework = "#auto"
  /\ Failed
  /\ error = ErrMustBeCustom

====
